---------------------------- MODULE Spec2Model ----------------------------
(***************************************************************************)
(* reps: a terminal countdown for timed workout repetitions (src/main.rs). *)
(* The model follows main(): argument parsing, raw-mode setup, start_reps  *)
(* with its countdown / handle_pause / consume_all_keystrokes calls, and   *)
(* the teardown.  The environment is the terminal: it delivers read        *)
(* results (bytes or a read failure) on the asynchronous input stream and  *)
(* may refuse the terminal-mode calls.                                     *)
(***************************************************************************)
EXTENDS Integers, Sequences, FiniteSets, TLC

\* ------------------------------------------------------------------ bounds
MaxReps == 2
MaxRepTime == 2
MaxRelaxTime == 1
\* how many read results the terminal delivers during one execution
MaxArrivals == 3

\* --------------------------------------------------------------- constants
ESC == 27
CTRL_C == 3
\* a representative keystroke that does not request exit (space)
OTHER_KEY == 32
\* a read of the stream that failed: the Err(e) arm of consume_all_keystrokes
IO_ERR == -1
INTRO_TIME == 3
EXIT_PARSE == 1
\* exit status of a Rust process whose main thread panicked
EXIT_PANIC == 101

VARIABLES
  pc,         \* position of main()'s single thread
  opts,       \* Options { num_reps, rep_time, relax_time }
  stdin,      \* read results buffered on the async stream, oldest first
  display,    \* the messages print_message has shown, oldest first
  phase,      \* countdown being run by start_reps: "intro", "rep", "relax"
  rep,        \* loop variable of start_reps
  sec,        \* loop variable of countdown
  result,     \* what start_reps returned
  term,       \* the terminal: raw mode, cursor, restore calls, reset
  out,        \* lines main() printed outside print_message
  exitCode,   \* process exit status, -1 while running
  lastPoll,   \* history: the latest consume_all_keystrokes call
  arrived,    \* history: read results delivered so far
  firstExit,  \* history: when the first exit byte was buffered inside a tick
  log,        \* history: renders, one-second sleeps and handle_pause calls
  sinceExit   \* history: what the run did since an exit byte was first buffered

vars == <<pc, opts, stdin, display, phase, rep, sec, result, term, out,
          exitCode, lastPoll, arrived, firstExit, log, sinceExit>>

\* ------------------------------------------------------------ Result<_, _>
Ok(v) == [ok |-> TRUE, val |-> v]
Err(e) == [ok |-> FALSE, val |-> e]
NoResult == [ok |-> TRUE, val |-> "pending"]

\* faulty variant: a failed read reported with the exit request's message
ErrorMessage_Exiting(e) == "Exiting"

\* format!("Error: {}", e)
ErrorMessage(e) == "Error: EIO"

\* --------------------------------------------------- consume_all_keystrokes
RECURSIVE ConsumeLoop(_, _)
ConsumeLoop(s, return_value) ==
  IF s = <<>>
    THEN [ret |-> return_value, stdin |-> s]
    ELSE LET e == Head(s) IN
         IF e = ESC THEN [ret |-> Err("Exiting"), stdin |-> Tail(s)]
         ELSE IF e = CTRL_C THEN [ret |-> Err("Exiting"), stdin |-> Tail(s)]
         ELSE IF e = IO_ERR THEN [ret |-> Err(ErrorMessage(e)), stdin |-> Tail(s)]
         ELSE ConsumeLoop(Tail(s), Ok("Some"))

\* faulty variant: Ctrl-C is not recognised as an exit request
RECURSIVE ConsumeLoop_NoCtrlC(_, _)
ConsumeLoop_NoCtrlC(s, return_value) ==
  IF s = <<>>
    THEN [ret |-> return_value, stdin |-> s]
    ELSE LET e == Head(s) IN
         IF e = ESC THEN [ret |-> Err("Exiting"), stdin |-> Tail(s)]
         ELSE IF e = IO_ERR THEN [ret |-> Err(ErrorMessage(e)), stdin |-> Tail(s)]
         ELSE ConsumeLoop_NoCtrlC(Tail(s), Ok("Some"))

consume_NoCtrlC(s) == ConsumeLoop_NoCtrlC(s, Ok("None"))

\* faulty variant: returns at the first keystroke instead of draining
consume_FirstKeyOnly(s) ==
  IF s = <<>>
    THEN [ret |-> Ok("None"), stdin |-> s]
    ELSE LET e == Head(s) IN
         IF e = ESC \/ e = CTRL_C THEN [ret |-> Err("Exiting"), stdin |-> Tail(s)]
         ELSE IF e = IO_ERR THEN [ret |-> Err(ErrorMessage(e)), stdin |-> Tail(s)]
         ELSE [ret |-> Ok("Some"), stdin |-> Tail(s)]

\* faulty variant: return_value is never set to Some
RECURSIVE ConsumeLoop_NeverSome(_, _)
ConsumeLoop_NeverSome(s, return_value) ==
  IF s = <<>>
    THEN [ret |-> return_value, stdin |-> s]
    ELSE LET e == Head(s) IN
         IF e = ESC \/ e = CTRL_C THEN [ret |-> Err("Exiting"), stdin |-> Tail(s)]
         ELSE IF e = IO_ERR THEN [ret |-> Err(ErrorMessage(e)), stdin |-> Tail(s)]
         ELSE ConsumeLoop_NeverSome(Tail(s), return_value)

consume_NeverSome(s) == ConsumeLoop_NeverSome(s, Ok("None"))

consume_all_keystrokes(s) == ConsumeLoop(s, Ok("None"))

\* Option::is_some and Option::is_none on the Ok value of a poll
is_some(v) == v = "Some"
\* faulty variant: the pause loop's condition negated
is_none_Inverted(v) == v = "Some"
is_none(v) == v = "None"

\* ------------------------------------------------------------ print_message
Frame(ph, r, s) ==
  [label |-> CASE ph = "intro" -> "Starting in"
               [] ph = "rep"   -> "Rep"
               [] ph = "relax" -> "Relax!",
   rep   |-> IF ph = "rep" THEN r ELSE 0,
   reps  |-> IF ph = "rep" THEN opts.num_reps ELSE 0,
   color |-> CASE ph = "intro" -> "Blue"
               [] ph = "rep"   -> "Red"
               [] ph = "relax" -> "Green",
   sec   |-> s]

PauseMessage == [label |-> "PAUSE", rep |-> 0, reps |-> 0, color |-> "Reset", sec |-> 0]

print_message(m) == Append(display, m)

\* ------------------------------------------------- start_reps and countdown
Count(ph) ==
  CASE ph = "intro" -> INTRO_TIME
    [] ph = "rep"   -> opts.rep_time
    [] ph = "relax" -> opts.relax_time

Returned == [done |-> TRUE, phase |-> "intro", rep |-> 0, sec |-> 0]
At(ph, r, s) == [done |-> FALSE, phase |-> ph, rep |-> r, sec |-> s]

RECURSIVE Countdown(_, _), AfterPhase(_, _), RepLoop(_)
\* faulty variant: the loop body runs once before the count is tested
Countdown_AtLeastOnce(ph, r) == At(ph, r, Count(ph))
\* countdown(label, count): its first iteration, or straight on when count = 0
Countdown(ph, r) ==
  IF Count(ph) >= 1 THEN At(ph, r, Count(ph)) ELSE AfterPhase(ph, r)
\* faulty variant: the rest countdown is left out of the loop body
AfterPhase_NoRelax(ph, r) ==
  CASE ph = "intro" -> RepLoop(1)
    [] ph = "rep"   -> RepLoop(r + 1)
    [] ph = "relax" -> RepLoop(r + 1)
\* the statement of start_reps that follows a countdown that returned Ok
AfterPhase(ph, r) ==
  CASE ph = "intro" -> RepLoop(1)
    [] ph = "rep"   -> Countdown("relax", r)
    [] ph = "relax" -> RepLoop(r + 1)
\* for rep in 1..=reps
RepLoop(r) ==
  IF r <= opts.num_reps THEN Countdown("rep", r) ELSE Returned

\* faulty variant: the range runs down to 0
NextIteration_ShowsZero(ph, r, s) ==
  IF s > 0 THEN At(ph, r, s - 1) ELSE AfterPhase(ph, r)

\* for sec in (1..=count).rev(): the iteration after the one for s
NextIteration(ph, r, s) ==
  IF s > 1 THEN At(ph, r, s - 1) ELSE AfterPhase(ph, r)

\* ------------------------------------------------------------------- state
TickPCs == {"sleep", "poll", "pause_poll", "pause_sleep"}
RunPCs == TickPCs \cup {"loop"}

Items == {ESC, CTRL_C, OTHER_KEY, IO_ERR}
IsExit(e) == e = ESC \/ e = CTRL_C

NoPoll == [batch |-> <<>>, ret |-> NoResult, rest |-> <<>>, from |-> "none", shown |-> 0,
           arrived |-> 0]
NoExit == [seen |-> FALSE, pc |-> "none", frames |-> 0, errAhead |-> FALSE]
NoSince == [seen |-> FALSE, pc |-> "none", frames |-> 0, sleeps |-> 0,
            pauseSleeps |-> 0, polls |-> 0]
\* one more event of kind f since the exit byte was buffered, if one was
Since(f) == IF sinceExit.seen THEN [sinceExit EXCEPT ![f] = @ + 1] ELSE sinceExit

Frames == SelectSeq(display, LAMBDA m : m.label # "PAUSE")

Init ==
  /\ pc = "parse"
  /\ opts = [num_reps |-> 0, rep_time |-> 0, relax_time |-> 0]
  /\ stdin = <<>>
  /\ display = <<>>
  /\ phase = "intro"
  /\ rep = 0
  /\ sec = 0
  /\ result = NoResult
  /\ term = [raw |-> FALSE, cursor |-> "shown", restores |-> 0, reset |-> FALSE,
             failed |-> "none"]
  /\ out = <<>>
  /\ exitCode = -1
  /\ lastPoll = NoPoll
  /\ arrived = 0
  /\ firstExit = NoExit
  /\ log = <<>>
  /\ sinceExit = NoSince

\* ------------------------------------------------------------- environment
\* The reader thread of async_stdin() forwards one read result to the stream.
Deliver(e) ==
  /\ pc \in RunPCs \cup {"setup"}
  /\ arrived < MaxArrivals
  /\ stdin' = Append(stdin, e)
  /\ arrived' = arrived + 1
  /\ firstExit' =
       IF IsExit(e) /\ ~firstExit.seen /\ pc \in TickPCs
         THEN [seen |-> TRUE, pc |-> pc, frames |-> Len(Frames),
               errAhead |-> \E i \in 1..Len(stdin) :
                              /\ stdin[i] = IO_ERR
                              /\ \A j \in 1..(i - 1) : ~IsExit(stdin[j])]
         ELSE firstExit
  /\ sinceExit' =
       IF IsExit(e) /\ ~sinceExit.seen
         THEN [NoSince EXCEPT !.seen = TRUE, !.pc = pc]
         ELSE sinceExit
  /\ UNCHANGED <<pc, opts, display, phase, rep, sec, result, term, out,
                 exitCode, lastPoll, log>>

Keystroke == \E b \in {ESC, CTRL_C, OTHER_KEY} : Deliver(b)

ReadError == Deliver(IO_ERR)

\* -------------------------------------------------------------------- main
\* parse_args() fails: print the error, exit(1)
ParseArgsErr ==
  /\ pc = "parse"
  /\ out' = Append(out, "usage error")
  /\ exitCode' = EXIT_PARSE
  /\ pc' = "exited"
  /\ UNCHANGED <<opts, stdin, display, phase, rep, sec, result, term,
                 lastPoll, arrived, firstExit, log, sinceExit>>

\* parse_args() succeeds; async_stdin() starts the reader thread
ParseArgsOk ==
  /\ pc = "parse"
  /\ \E n \in 0..MaxReps, t \in 0..MaxRepTime, x \in 0..MaxRelaxTime :
       opts' = [num_reps |-> n, rep_time |-> t, relax_time |-> x]
  /\ pc' = "setup"
  /\ UNCHANGED <<stdin, display, phase, rep, sec, result, term, out,
                 exitCode, lastPoll, arrived, firstExit, log, sinceExit>>

\* into_raw_mode() fails and unwrap() panics
RawModePanic ==
  /\ pc = "setup"
  /\ term' = [term EXCEPT !.failed = "into_raw_mode"]
  /\ exitCode' = EXIT_PANIC
  /\ pc' = "exited"
  /\ UNCHANGED <<opts, stdin, display, phase, rep, sec, result, out,
                 lastPoll, arrived, firstExit, log, sinceExit>>

\* into_raw_mode() succeeds, the cursor is hidden, start_reps is entered
RawMode ==
  /\ pc = "setup"
  /\ term' = [term EXCEPT !.raw = TRUE, !.cursor = "hidden"]
  /\ phase' = "intro"
  /\ rep' = 0
  /\ sec' = Count("intro") + 1
  /\ pc' = "loop"
  /\ UNCHANGED <<opts, stdin, display, result, out, exitCode, lastPoll,
                 arrived, firstExit, log, sinceExit>>

\* faulty variant: the frame is printed but the one-second sleep is missing
Iterate_NoSleep ==
  /\ pc = "loop"
  /\ LET nxt == NextIteration(phase, rep, sec) IN
       IF nxt.done
         THEN /\ result' = Ok("()")
              /\ pc' = "returned"
              /\ UNCHANGED <<display, phase, rep, sec, log, sinceExit>>
         ELSE /\ display' = print_message(Frame(nxt.phase, nxt.rep, nxt.sec))
              /\ phase' = nxt.phase
              /\ rep' = nxt.rep
              /\ sec' = nxt.sec
              /\ pc' = "poll"
              /\ log' = Append(log, "render")
              /\ sinceExit' = Since("frames")
              /\ UNCHANGED result
  /\ UNCHANGED <<opts, stdin, term, out, exitCode, lastPoll, arrived, firstExit>>

\* ------------------------------------------------------------ the run loop
\* The loop heads of countdown and start_reps: either the next iteration of
\* some countdown prints its frame and starts its one-second sleep, or every
\* loop is exhausted and start_reps returns Ok(()).
Iterate ==
  /\ pc = "loop"
  /\ LET nxt == NextIteration(phase, rep, sec) IN
       IF nxt.done
         THEN /\ result' = Ok("()")
              /\ pc' = "returned"
              /\ UNCHANGED <<display, phase, rep, sec, log, sinceExit>>
         ELSE /\ display' = print_message(Frame(nxt.phase, nxt.rep, nxt.sec))
              /\ phase' = nxt.phase
              /\ rep' = nxt.rep
              /\ sec' = nxt.sec
              /\ pc' = "sleep"
              /\ log' = Append(log, "render")
              /\ sinceExit' = Since("frames")
              /\ UNCHANGED result
  /\ UNCHANGED <<opts, stdin, term, out, exitCode, lastPoll, arrived, firstExit>>

\* thread::sleep(DURATION_1_SECOND) ends
Sleep ==
  /\ pc = "sleep"
  /\ pc' = "poll"
  /\ log' = Append(log, "sleep")
  /\ sinceExit' = Since("sleeps")
  /\ UNCHANGED <<opts, stdin, display, phase, rep, sec, result, term, out,
                 exitCode, lastPoll, arrived, firstExit>>

Polled(r, from) ==
  [batch |-> stdin, ret |-> r.ret, rest |-> r.stdin, from |-> from,
   shown |-> Len(display), arrived |-> arrived]

\* handle_pause: the first consume_all_keystrokes of the tick
HandlePause ==
  /\ pc = "poll"
  /\ LET r == consume_all_keystrokes(stdin) IN
       /\ stdin' = r.stdin
       /\ lastPoll' = Polled(r, "running")
       /\ IF ~r.ret.ok
            THEN /\ result' = r.ret
                 /\ pc' = "returned"
                 /\ UNCHANGED display
            ELSE IF is_some(r.ret.val)
              THEN /\ display' = print_message(PauseMessage)
                   /\ pc' = "pause_poll"
                   /\ UNCHANGED result
              ELSE /\ pc' = "loop"
                   /\ UNCHANGED <<display, result>>
  /\ log' = Append(log, "poll")
  /\ sinceExit' = Since("polls")
  /\ UNCHANGED <<opts, phase, rep, sec, term, out, exitCode, arrived, firstExit>>

\* faulty variant: resuming costs the countdown a second
PausePoll_SkipsSecond ==
  /\ pc = "pause_poll"
  /\ LET r == consume_all_keystrokes(stdin) IN
       /\ stdin' = r.stdin
       /\ lastPoll' = Polled(r, "paused")
       /\ IF ~r.ret.ok
            THEN /\ result' = r.ret
                 /\ pc' = "returned"
                 /\ UNCHANGED sec
            ELSE IF is_none(r.ret.val)
              THEN /\ pc' = "pause_sleep"
                   /\ UNCHANGED <<result, sec>>
              ELSE /\ pc' = "loop"
                   /\ sec' = sec - 1
                   /\ UNCHANGED result
  /\ sinceExit' = Since("polls")
  /\ UNCHANGED <<opts, display, phase, rep, term, out, exitCode, arrived,
                 firstExit, log>>

\* faulty variant: a keystroke does not end the pause
PausePoll_NeverResumes ==
  /\ pc = "pause_poll"
  /\ LET r == consume_all_keystrokes(stdin) IN
       /\ stdin' = r.stdin
       /\ lastPoll' = Polled(r, "paused")
       /\ IF ~r.ret.ok
            THEN /\ result' = r.ret
                 /\ pc' = "returned"
            ELSE /\ pc' = "pause_sleep"
                 /\ UNCHANGED result
  /\ sinceExit' = Since("polls")
  /\ UNCHANGED <<opts, display, phase, rep, sec, term, out, exitCode, arrived,
                 firstExit, log>>

\* handle_pause: the condition of its while loop
PausePoll ==
  /\ pc = "pause_poll"
  /\ LET r == consume_all_keystrokes(stdin) IN
       /\ stdin' = r.stdin
       /\ lastPoll' = Polled(r, "paused")
       /\ IF ~r.ret.ok
            THEN /\ result' = r.ret
                 /\ pc' = "returned"
            ELSE IF is_none(r.ret.val)
              THEN /\ pc' = "pause_sleep"
                   /\ UNCHANGED result
              ELSE /\ pc' = "loop"
                   /\ UNCHANGED result
  /\ sinceExit' = Since("polls")
  /\ UNCHANGED <<opts, display, phase, rep, sec, term, out, exitCode, arrived,
                 firstExit, log>>

\* thread::sleep(DURATION_500_MILLISECONDS) ends
PauseSleep ==
  /\ pc = "pause_sleep"
  /\ pc' = "pause_poll"
  /\ sinceExit' = Since("pauseSleeps")
  /\ UNCHANGED <<opts, stdin, display, phase, rep, sec, result, term, out,
                 exitCode, lastPoll, arrived, firstExit, log>>

\* ---------------------------------------------------------------- teardown
\* faulty variant: an Err from start_reps bypasses the reset and the restore
Teardown_SkippedOnErr ==
  /\ pc = "returned"
  /\ stdin' = <<>>
  /\ term' = IF result.ok
               THEN [term EXCEPT !.cursor = "shown", !.reset = TRUE,
                                 !.raw = FALSE, !.restores = @ + 1]
               ELSE term
  /\ pc' = "report"
  /\ UNCHANGED <<opts, display, phase, rep, sec, result, out, exitCode,
                 lastPoll, arrived, firstExit, log, sinceExit>>

\* start_reps dropped the stream; the cursor is shown again and
\* suspend_raw_mode() succeeds
Teardown ==
  /\ pc = "returned"
  /\ stdin' = <<>>
  /\ term' = [term EXCEPT !.cursor = "shown", !.reset = TRUE, !.raw = FALSE,
                          !.restores = @ + 1]
  /\ pc' = "report"
  /\ UNCHANGED <<opts, display, phase, rep, sec, result, out, exitCode,
                 lastPoll, arrived, firstExit, log, sinceExit>>

\* suspend_raw_mode() fails and expect() panics; unwinding drops the
\* RawTerminal, which tries to restore the mode once more
TeardownPanic ==
  /\ pc = "returned"
  /\ stdin' = <<>>
  /\ term' = [term EXCEPT !.cursor = "shown", !.reset = TRUE,
                          !.restores = @ + 2, !.failed = "suspend_raw_mode"]
  /\ exitCode' = EXIT_PANIC
  /\ pc' = "exited"
  /\ UNCHANGED <<opts, display, phase, rep, sec, result, out, lastPoll,
                 arrived, firstExit, log, sinceExit>>

\* faulty variant: an aborted run exits with a failure status
Report_FailsOnAbort ==
  /\ pc = "report"
  /\ out' = Append(out, IF result.ok THEN "done" ELSE result.val)
  /\ term' = [term EXCEPT !.restores = @ + 1]
  /\ exitCode' = IF result.ok THEN 0 ELSE 1
  /\ pc' = "exited"
  /\ UNCHANGED <<opts, stdin, display, phase, rep, sec, result, lastPoll,
                 arrived, firstExit, log, sinceExit>>

\* the final message, then main returns and the RawTerminal is dropped
Report ==
  /\ pc = "report"
  /\ out' = Append(out, IF result.ok THEN "done" ELSE result.val)
  /\ term' = [term EXCEPT !.restores = @ + 1, !.raw = FALSE]
  /\ exitCode' = 0
  /\ pc' = "exited"
  /\ UNCHANGED <<opts, stdin, display, phase, rep, sec, result, lastPoll,
                 arrived, firstExit, log, sinceExit>>

Next ==
  \/ Keystroke
  \/ ReadError
  \/ ParseArgsErr
  \/ ParseArgsOk
  \/ RawModePanic
  \/ RawMode
  \/ Iterate
  \/ Sleep
  \/ HandlePause
  \/ PausePoll
  \/ PauseSleep
  \/ Teardown
  \/ TeardownPanic
  \/ Report

Spec == Init /\ [][Next]_vars


\* main() runs on one thread that nothing blocks: whenever it can take its
\* next step in the run loop it eventually does (every sleep ends, every
\* poll returns at once).  The terminal owes the program nothing.
RunStep == Iterate \/ Sleep \/ HandlePause \/ PausePoll \/ PauseSleep

FairSpec == Spec /\ WF_vars(RunStep)

\* ------------------------------------------------------------------ claims
\* start_reps has returned (normally or by an Err)
RunEnded == pc \in {"returned", "report", "exited"} /\ result # NoResult

\* The frames of a run that meets no input, written out from the
\* configuration alone: n frames counting n, n-1, ..., 1.
Down(label, r, reps, color, n) ==
  [i \in 1..n |-> [label |-> label, rep |-> r, reps |-> reps, color |-> color,
                   sec |-> n + 1 - i]]

RECURSIVE RepFrames(_)
RepFrames(k) ==
  IF k > opts.num_reps THEN <<>>
  ELSE Down("Rep", k, opts.num_reps, "Red", opts.rep_time)
         \o Down("Relax!", 0, 0, "Green", opts.relax_time)
         \o RepFrames(k + 1)

NoInputFrames == Down("Starting in", 0, 0, "Blue", 3) \o RepFrames(1)

IsPrefix(a, b) == Len(a) <= Len(b) /\ \A i \in 1..Len(a) : a[i] = b[i]

\* C1: in a run during which the input stream never holds anything,
\* start_reps shows exactly 3 + R*(rep_time + relax_time) frames, the 3 intro
\* frames and then for rep = 1..R the rep_time active frames followed by the
\* relax_time rest frames, shows nothing else, and returns Ok (Completed).
C1_NoInputRun ==
  (RunEnded /\ arrived = 0) =>
     /\ result = Ok("()")
     /\ display = NoInputFrames
     /\ Len(display) = 3 + opts.num_reps * (opts.rep_time + opts.relax_time)

C1_Witness ==
  /\ pc = "exited" /\ arrived = 0 /\ result = Ok("()")
  /\ opts = [num_reps |-> 2, rep_time |-> 2, relax_time |-> 1]
  /\ Len(display) = 9

C3_PauseKeepsFrames ==
  /\ pc \in RunPCs \cup {"returned", "report"} => IsPrefix(Frames, NoInputFrames)
  /\ (pc \in RunPCs /\ Frames # <<>>) =>
        Frames[Len(Frames)] = Frame(phase, rep, sec)
  /\ (RunEnded /\ result.ok) => Frames = NoInputFrames
  /\ \A i \in 1..Len(display) :
        display[i].label = "PAUSE" => display[i] = PauseMessage

\* a completed run that was paused in the middle of the intro and resumed
C3_Witness ==
  /\ pc = "exited" /\ result = Ok("()")
  /\ Len(display) > Len(Frames)
  /\ display[2] = PauseMessage
  /\ display[3].label = "Starting in" /\ display[3].sec = 2
  /\ opts.num_reps = 2

\* an exit code is in the batch with no failed read before it
ExitFirst(b) ==
  \E i \in 1..Len(b) : IsExit(b[i]) /\ \A j \in 1..(i - 1) : b[j] # IO_ERR

\* C4: a poll whose batch holds an exit code (27 or 3) at any position, with
\* no failed read before it, returns Err("Exiting") whatever other keys are
\* in the batch; the run ends there, so the batch neither starts a pause
\* (no PAUSE message) nor ends one (no return to the countdown).
C4_ExitPriority ==
  (lastPoll.from # "none" /\ ExitFirst(lastPoll.batch)) =>
     /\ lastPoll.ret = Err("Exiting")
     /\ RunEnded /\ result = Err("Exiting")
     /\ Len(display) = lastPoll.shown

C4_Witness ==
  /\ lastPoll.batch = <<OTHER_KEY, CTRL_C, OTHER_KEY>>
  /\ lastPoll.ret = Err("Exiting")
  /\ pc = "returned"

NoExitNoError(b) == \A i \in 1..Len(b) : ~IsExit(b[i]) /\ b[i] # IO_ERR

\* C5: a poll whose batch holds no exit code and no failed read returns
\* Ok(None) exactly when the batch is empty and Ok(Some) exactly when it is
\* not.
C5_EmptyOrActivity ==
  (lastPoll.from # "none" /\ NoExitNoError(lastPoll.batch)) =>
     /\ lastPoll.ret \in {Ok("None"), Ok("Some")}
     /\ lastPoll.ret = Ok("None") <=> lastPoll.batch = <<>>
     /\ lastPoll.ret = Ok("Some") <=> lastPoll.batch # <<>>

C5_Witness ==
  /\ lastPoll.batch = <<OTHER_KEY, OTHER_KEY>>
  /\ lastPoll.ret = Ok("Some")
  /\ lastPoll.from = "running"
  /\ pc = "pause_poll"

\* C6 as stated: after any consume_all_keystrokes call, whatever it
\* returned, nothing that was buffered when it was called is left in the
\* stream.
C6_DrainsAll ==
  lastPoll.from # "none" => lastPoll.rest = <<>>

\* C7: when the process of a started run ends, by whichever path start_reps
\* returned (completed, exit byte while running, exit byte while paused,
\* failed read), the cursor/color reset has been printed and the terminal
\* mode restoration has been called.
C7_TeardownAlways ==
  (pc = "exited" /\ result # NoResult) =>
     /\ term.reset
     /\ term.cursor = "shown"
     /\ term.restores >= 1
     /\ term.failed = "none" => ~term.raw

\* the run was aborted by an exit byte read while paused
C7_Witness ==
  /\ pc = "exited" /\ result = Err("Exiting")
  /\ lastPoll.from = "paused"
  /\ term.reset /\ term.restores >= 1 /\ ~term.raw

ParseFailed == out = <<"usage error">>

\* C8 as stated: "done" is printed exactly when the run completed, the abort
\* reason exactly when it aborted, and the exit code is non-zero only when
\* argument parsing failed.
C8_Original ==
  pc = "exited" =>
     /\ result = Ok("()") <=> out = <<"done">>
     /\ (result # NoResult /\ ~result.ok) <=> out = <<result.val>>
     /\ exitCode # 0 => ParseFailed

\* C8 amended: start_reps returns at most once and its result never changes;
\* when no terminal-mode call fails, the process prints exactly one final
\* line, "done" exactly when the run completed and the abort reason
\* ("Exiting" or "Error: ...") exactly when it aborted, and exits 0 also
\* after a mid-run abort; the exit code is non-zero exactly when argument
\* parsing failed (1) or into_raw_mode / suspend_raw_mode failed (panic,
\* 101), and then no final line is printed.
C8_OutcomeSelectsMessage ==
  /\ result # NoResult => pc \in {"returned", "report", "exited"}
  /\ pc = "exited" =>
       /\ (term.failed = "none" /\ ~ParseFailed) =>
            /\ result # NoResult
            /\ exitCode = 0
            /\ Len(out) = 1
            /\ result = Ok("()") <=> out = <<"done">>
            /\ ~result.ok <=> out = <<result.val>>
            /\ ~result.ok => result.val \in {"Exiting", "Error: EIO"}
       /\ exitCode # 0 <=> (ParseFailed \/ term.failed # "none")
       /\ ParseFailed => exitCode = EXIT_PARSE /\ result = NoResult
       /\ term.failed # "none" => exitCode = EXIT_PANIC /\ out = <<>>

\* a run aborted by ESC: "Exiting" is printed and the process exits 0
C8_Witness ==
  /\ pc = "exited" /\ result = Err("Exiting") /\ out = <<"Exiting">>
  /\ exitCode = 0

\* the first read result that decides the poll is a failed read
ErrorFirst(b) ==
  \E i \in 1..Len(b) : b[i] = IO_ERR /\ \A j \in 1..(i - 1) : ~IsExit(b[j])

\* C9: a poll that meets a failed read, in a countdown tick or in the pause
\* loop, returns that read's error message, which is not "Exiting"; the run
\* is aborted with that message as its reason, with no further poll and
\* nothing more shown.
C9_ReadErrorAborts ==
  (lastPoll.from # "none" /\ ErrorFirst(lastPoll.batch)) =>
     /\ lastPoll.ret = Err("Error: EIO")
     /\ lastPoll.ret # Err("Exiting")
     /\ RunEnded /\ result = lastPoll.ret
     /\ Len(display) = lastPoll.shown
     /\ (pc = "exited" /\ term.failed = "none") => out = <<"Error: EIO">>

\* a read failed while the run was paused
C9_Witness ==
  /\ pc = "exited" /\ lastPoll.from = "paused"
  /\ lastPoll.batch = <<OTHER_KEY, IO_ERR>>
  /\ result = Err("Error: EIO") /\ out = <<"Error: EIO">>

RunState ==
  IF pc \in {"loop", "sleep", "poll"} THEN "Running"
  ELSE IF pc \in {"pause_poll", "pause_sleep"} THEN "Paused"
  ELSE IF result = NoResult THEN "NotStarted"
  ELSE IF result.ok THEN "Completed"
  ELSE "Aborted"

\* C10: a run starts Running; from Running it stays Running, becomes Paused
\* (only by a poll that returns Ok(Some)), Completed or Aborted; from Paused
\* it stays Paused (in particular on a poll that returns Ok(None)), returns
\* to Running (only by a poll that returns Ok(Some)), or is Aborted by the
\* Err of the pause loop's own poll, and never becomes Completed directly;
\* Completed and Aborted are final.
C10_Step ==
  /\ RunState = "NotStarted" => RunState' \in {"NotStarted", "Running"}
  /\ RunState = "Running" =>
       RunState' \in {"Running", "Paused", "Completed", "Aborted"}
  /\ RunState = "Paused" => RunState' \in {"Paused", "Running", "Aborted"}
  /\ RunState \in {"Completed", "Aborted"} => RunState' = RunState
  /\ (RunState # "Paused" /\ RunState' = "Paused") =>
       /\ RunState = "Running"
       /\ lastPoll'.from = "running" /\ lastPoll'.batch = stdin
       /\ lastPoll'.ret = Ok("Some")
  /\ (pc = "pause_poll" /\ pc' # pc /\ lastPoll'.ret = Ok("None")) =>
       RunState' = "Paused"
  /\ (RunState = "Paused" /\ RunState' = "Running") =>
       /\ lastPoll'.from = "paused" /\ lastPoll'.batch = stdin
       /\ lastPoll'.ret = Ok("Some")
  /\ (RunState = "Paused" /\ RunState' = "Aborted") =>
       /\ lastPoll'.from = "paused" /\ lastPoll'.batch = stdin
       /\ ~lastPoll'.ret.ok /\ result' = lastPoll'.ret

C11_ExitLatency ==
  sinceExit.seen =>
     /\ sinceExit.polls <= 1
     /\ sinceExit.polls = 1 => (RunEnded /\ ~result.ok)
     /\ (RunEnded /\ ~result.ok) => sinceExit.polls = 1
     /\ sinceExit.frames <= 1 /\ sinceExit.sleeps <= 1
     /\ sinceExit.pauseSleeps <= 1
     /\ sinceExit.pc \in {"pause_poll", "pause_sleep"} =>
          sinceExit.frames = 0 /\ sinceExit.sleeps = 0
     /\ sinceExit.pc \in {"setup", "loop", "sleep", "poll"} =>
          sinceExit.pauseSleeps = 0
     /\ sinceExit.pc = "sleep" => sinceExit.frames = 0
     /\ sinceExit.pc = "poll" => sinceExit.frames = 0 /\ sinceExit.sleeps = 0
     /\ sinceExit.pc = "pause_poll" => sinceExit.pauseSleeps = 0

\* the worst case while paused: the byte arrives during a 500 ms sleep
C11_Witness ==
  /\ sinceExit.seen /\ sinceExit.pc = "pause_sleep"
  /\ sinceExit.pauseSleeps = 1 /\ sinceExit.polls = 1
  /\ result = Err("Exiting") /\ pc = "returned"

PhaseLen(m) ==
  CASE m.label = "Starting in" -> 3
    [] m.label = "Rep"         -> opts.rep_time
    [] m.label = "Relax!"      -> opts.relax_time

SamePhase(m, n) == m.label = n.label /\ m.rep = n.rep

\* C12: the frames of a countdown of N seconds count N, N-1, ..., 1: every
\* frame shows a value between 1 and N (never 0), the first frame of a
\* countdown shows N, a frame showing more than 1 is followed by the frame of
\* the same countdown showing one less, a frame showing 1 is followed by the
\* first frame of another countdown, and a completed run ends on a 1.
C12_CountsDown ==
  \A i \in 1..Len(Frames) :
     LET m == Frames[i] IN
       /\ 1 <= m.sec /\ m.sec <= PhaseLen(m)
       /\ i = 1 => m.sec = PhaseLen(m)
       /\ i < Len(Frames) =>
            LET n == Frames[i + 1] IN
              IF m.sec > 1 THEN SamePhase(m, n) /\ n.sec = m.sec - 1
                           ELSE n.sec = PhaseLen(n)
       /\ (i = Len(Frames) /\ RunEnded /\ result.ok) => m.sec = 1

\* an active countdown of 2 seconds that ran to its end
C12_Witness ==
  /\ opts.rep_time = 2 /\ Len(Frames) >= 6
  /\ Frames[4].label = "Rep" /\ Frames[4].sec = 2
  /\ Frames[5].label = "Rep" /\ Frames[5].sec = 1
  /\ Frames[6].sec = PhaseLen(Frames[6])

NumberOf(ev) == Cardinality({j \in 1..Len(log) : log[j] = ev})

\* C13: with relax_time = 0 no rest frame is ever shown and no sleep happens
\* that is not the sleep of a shown frame, so the last frame of rep k is
\* followed by the first frame of rep k+1, and after the last frame of the
\* last rep start_reps returns Ok.
C13_NoRest ==
  opts.relax_time = 0 =>
     /\ \A i \in 1..Len(display) : display[i].label # "Relax!"
     /\ NumberOf("sleep") <= Len(Frames)
     /\ \A j \in 1..Len(log) : log[j] = "sleep" => (j > 1 /\ log[j - 1] = "render")
     /\ \A i \in 1..Len(Frames) :
          (Frames[i].label = "Rep" /\ Frames[i].sec = 1) =>
             /\ i < Len(Frames) =>
                  /\ Frames[i + 1].label = "Rep"
                  /\ Frames[i + 1].rep = Frames[i].rep + 1
                  /\ Frames[i + 1].sec = opts.rep_time
             /\ (i = Len(Frames) /\ pc = "loop") => Frames[i].rep = rep
             /\ (i = Len(Frames) /\ RunEnded /\ result.ok) =>
                  /\ Frames[i].rep = opts.num_reps
                  /\ NumberOf("sleep") = Len(Frames)

\* two reps without rest, run to completion
C13_Witness ==
  /\ opts = [num_reps |-> 2, rep_time |-> 1, relax_time |-> 0]
  /\ RunEnded /\ result.ok
  /\ Len(Frames) = 5 /\ Frames[4].rep = 1 /\ Frames[5].rep = 2

TickStep(j) ==
  CASE j % 3 = 1 -> "render"
    [] j % 3 = 2 -> "sleep"
    [] j % 3 = 0 -> "poll"

\* C14: renders, one-second sleeps and handle_pause calls happen in the
\* order render, sleep, poll, over and over: every frame is followed by one
\* sleep and then exactly one handle_pause before the next frame or the end
\* of the countdown, and no poll happens before the first frame.
C14_TickOrder ==
  /\ \A j \in 1..Len(log) : log[j] = TickStep(j)
  /\ NumberOf("render") = Len(Frames)
  /\ display = <<>> => lastPoll = NoPoll
  /\ lastPoll.from # "none" => NumberOf("poll") >= 1
  /\ pc = "loop" => Len(log) = 3 * Len(Frames)
  /\ pc = "sleep" => Len(log) = 3 * Len(Frames) - 2
  /\ pc = "poll" => Len(log) = 3 * Len(Frames) - 1
  /\ RunEnded => Len(log) = 3 * Len(Frames)

\* the second frame is on screen, its sleep is over, its poll not yet made
C14_Witness ==
  /\ pc = "poll" /\ Len(Frames) = 2
  /\ log = <<"render", "sleep", "poll", "render", "sleep">>

\* C15 as stated: when the process of a started run ends, the terminal
\* mode has been restored exactly once.
C15_Original ==
  (pc = "exited" /\ result # NoResult) => term.restores = 1

\* C15 amended: the terminal mode is held in raw mode, unrestored, for the
\* whole run, and when the process of a started run ends it has been
\* restored on every path, never zero times, but twice: once by
\* suspend_raw_mode() and once more when the RawTerminal is dropped; a
\* process that never entered raw mode restores nothing.
C15_RestoredOnEveryPath ==
  /\ pc \in RunPCs \cup {"returned"} => (term.raw /\ term.restores = 0)
  /\ pc = "report" => (~term.raw /\ term.restores = 1)
  /\ (pc = "exited" /\ result # NoResult) =>
       /\ term.restores >= 1
       /\ term.restores = 2
       /\ term.failed = "none" => ~term.raw
  /\ (pc = "exited" /\ result = NoResult) => term.restores = 0

\* a run aborted by a failed read
C15_Witness ==
  /\ pc = "exited" /\ result = Err("Error: EIO")
  /\ term.restores = 2 /\ ~term.raw

NonExitBatch(b) == b # <<>> /\ \A i \in 1..Len(b) : b[i] = OTHER_KEY

PausesFrom(k) == Cardinality({i \in (k + 1)..Len(display) : display[i] = PauseMessage})

\* C16: a poll that finds one or more keystrokes, none of them an exit code,
\* consumes them all and counts them as one Activity: made while running it
\* shows PAUSE once and leaves the run paused with nothing buffered for the
\* pause loop to mistake for a resume; made while paused it resumes the
\* countdown once, with nothing buffered for the next tick to mistake for a
\* new pause and no further PAUSE shown.
C16_SingleActivity ==
  /\ (lastPoll.from # "none" /\ lastPoll.ret.ok /\ pc \in RunPCs) =>
        Len(stdin) = arrived - lastPoll.arrived
  /\ (lastPoll.from = "running" /\ NonExitBatch(lastPoll.batch)) =>
        /\ lastPoll.ret = Ok("Some") /\ lastPoll.rest = <<>>
        /\ pc = "pause_poll"
        /\ Len(display) = lastPoll.shown + 1
        /\ PausesFrom(lastPoll.shown) = 1
  /\ (lastPoll.from = "paused" /\ NonExitBatch(lastPoll.batch)) =>
        /\ lastPoll.ret = Ok("Some") /\ lastPoll.rest = <<>>
        /\ pc \notin {"pause_poll", "pause_sleep"}
        /\ display[lastPoll.shown] = PauseMessage
        /\ PausesFrom(lastPoll.shown) = 0
        /\ Len(display) <= lastPoll.shown + 1

\* two keystrokes typed during one 500 ms sleep resume the countdown once
C16_Witness ==
  /\ lastPoll.from = "paused" /\ lastPoll.batch = <<OTHER_KEY, OTHER_KEY>>
  /\ pc = "sleep" /\ stdin = <<>>
  /\ Len(display) = lastPoll.shown + 1

\* C17 (safety part): while the run is paused with nothing buffered, every
\* step other than the arrival of input leaves it paused and shows nothing.
C17_Step ==
  (RunState = "Paused" /\ stdin = <<>> /\ arrived' = arrived) =>
     (RunState' = "Paused" /\ display' = display /\ stdin' = <<>>)

\* C17: a pause during which something is buffered eventually ends, and a
\* started run eventually returns (Completed or Aborted) unless from some
\* moment on it is paused with nothing buffered, that is unless some pause is
\* never followed by a keystroke; and such a pause lasts for ever without
\* another frame.
C17_Termination ==
  /\ [][C17_Step]_vars
  /\ (RunState = "Paused" /\ stdin # <<>>) ~> (RunState # "Paused")
  /\ [](pc \in RunPCs =>
          (<>RunEnded \/ <>[](RunState = "Paused" /\ stdin = <<>>)))

\* a pause that has already waited through an empty poll
C17_Witness ==
  /\ pc = "pause_sleep" /\ stdin = <<>>
  /\ lastPoll.from = "paused" /\ lastPoll.ret = Ok("None")
  /\ arrived < MaxArrivals

=============================================================================
